---------------------------- MODULE Spec2Model ----------------------------
(***************************************************************************)
(* Model of src/src/starfield.js (setupStarField): the seeded star field   *)
(* generator, the twinkle simulator, the shooting-star subsystem, the      *)
(* renderer and the frame orchestrator.                                    *)
(*                                                                         *)
(* Numbers.  JavaScript doubles are modelled in fixed point:               *)
(*   - unit-less quantities (random draws, alpha, brightness, fade,        *)
(*     noise, probabilities) are integers in units of 1/U  (U = 10000);    *)
(*   - lengths and coordinates are integers in 1/PX pixel (PX = 100),      *)
(*     except the integer pixel coordinates produced by Math.floor.        *)
(* Every product is divided back with \div (floor), in the order the code  *)
(* multiplies.  All intermediate values stay below 2^31.                   *)
(*                                                                         *)
(* Libraries.  alea (the seeded PRNG) and simplex-noise (noise2D) are not  *)
(* part of the repository.  The PRNG is modelled as a deterministic        *)
(* generator with hidden state (a 16-bit linear congruential generator);   *)
(* noise2D as a deterministic coherent lattice noise fixed by the seed.    *)
(* Math.pow, Math.sin and Math.cos are tabulated.                          *)
(***************************************************************************)
EXTENDS Integers, Sequences, FiniteSets, TLC

\* fixed-point resolutions: a unit-less number v is held as v * U, a length
\* in pixels as its value * PX
U == 10 ^ 4
PX == 10 ^ 2

(***************************************************************************)
(* Bounds of the model (not program constants).                            *)
(***************************************************************************)
\* frames (animate calls) after setup
MaxTicks == 2
\* timer callbacks, resizes, redraw calls and visible -> hidden transitions
\* after setup
MaxEvents == 3
\* timer callbacks and visible -> hidden transitions in the fair specification
MaxLiveEvents == 1
\* redraw calls in the specification of repeated renders
MaxRedraws == 12
\* timer callbacks in the specification of repeated renders
MaxShimmerSpawns == 1
\* timer callbacks in the specification of the timer on a hidden page
MaxTimerSpawns == 5

\* daily seeds: the generator state reached after alea(seed) and
\* createNoise2D(prng) have run
Seeds == {40, 297}
\* seeds of the fair specification
LiveSeeds == {2, 4, 40}
\* viewport of the fair specification
LiveSizes == {<<30, 20>>}
\* viewport sizes <<innerWidth, innerHeight>> the window can take
InitSizes == {<<40, 40>>, <<30, 20>>}
Sizes == {<<0, 0>>, <<30, 20>>, <<40, 40>>}
\* values of Date.now() seen by updateStars (milliseconds)
NowSet == {0, 4700}

VARIABLES
  seed,                \* the daily seed (fixes noise2D)
  prng,                \* hidden state of the seeded generator
  stars,               \* the star collection
  shootingStars,       \* the active shooting stars
  innerWidth,          \* window.innerWidth
  innerHeight,         \* window.innerHeight
  canvasDisplayHeight,
  fadeStartY,          \* const fadeStartY (line 335), in 1/PX pixel
  fadeEndY,            \* const fadeEndY  (line 336)
  fadeRange,           \* const fadeRange (line 337)
  isVisible,
  visibilityState,     \* document.visibilityState
  rafPending,          \* a requestAnimationFrame(animate) is outstanding
  ticks,               \* number of animate calls so far
  spawned,             \* number of createShootingStar calls so far
  events,              \* timer callbacks, resizes and hidings so far
  gen0,                \* history: viewport and layout of the first generation
  updatedSS,           \* history: shootingStars as updateShootingStars left it
  out                  \* history: what the last handler's render pass did

vars == <<seed, prng, stars, shootingStars, innerWidth, innerHeight,
          canvasDisplayHeight, fadeStartY, fadeEndY, fadeRange, isVisible,
          visibilityState, rafPending, ticks, spawned, events,
          gen0, updatedSS, out>>

Max(a, b) == IF a >= b THEN a ELSE b

(***************************************************************************)
(* Seeded PRNG: prng() advances the hidden state and returns a value in    *)
(* [0, 1), here [0, U).                                                    *)
(***************************************************************************)
PrngModulus == 2 ^ 16

PrngStep(s) == (25173 * s + 13849) % PrngModulus

\* one call of seededRandom(): the value returned and the state left behind
seededRandom(s) == [v |-> (PrngStep(s) * U) \div PrngModulus, s |-> PrngStep(s)]

(***************************************************************************)
(* noise2D(x, y) in [-1, 1] (here [-U, U]); arguments in units of 1/U.     *)
(* Bilinear interpolation of per-seed lattice values.                      *)
(***************************************************************************)
Lattice(sd, ix, iy) == ((((sd + 17 * ix + 57 * iy) % 1009) * 613 + 29) % 2001) * 10 - U

noise2D(sd, nx, ny) ==
  LET ix == nx \div U
      iy == ny \div U
      fx == nx % U
      fy == ny % U
      top == (Lattice(sd, ix, iy) * (U - fx) + Lattice(sd, ix + 1, iy) * fx) \div U
      bot == (Lattice(sd, ix, iy + 1) * (U - fx) + Lattice(sd, ix + 1, iy + 1) * fx) \div U
  IN  (top * (U - fy) + bot * fy) \div U

\* (noise2D(x * scale, y * scale) + 1) / 2 for x, y in 1/PX pixel and
\* scale in units of 1/U
ScaledNoise(sd, x, y, scale) ==
  (noise2D(sd, (x * scale) \div PX, (y * scale) \div PX) + U) \div 2

largeStructureScale == 25      \* 0.0025
mediumStructureScale == 100    \* 0.01
baseMinDistance == 1200        \* 12 px
minDistanceVariation == 800    \* 8 px
jitterAmount == 200            \* 2 px

\* Math.pow(v, 4.237) for v = i / 100, i = 0 .. 105
ContrastTable ==
  << 0, 0, 0, 0, 0, 0, 0, 0, 0, 0, 0, 0,
     1, 1, 2, 3, 4, 5, 6, 8, 10, 13, 16, 19,
     23, 28, 33, 38, 45, 52, 60, 69, 80, 91, 103, 117,
     131, 148, 165, 185, 206, 228, 253, 279, 308, 339, 372, 408,
     446, 486, 530, 576, 626, 678, 734, 794, 857, 923, 994, 1069,
     1148, 1231, 1319, 1411, 1509, 1611, 1719, 1832, 1951, 2075, 2206, 2343,
     2486, 2635, 2792, 2955, 3126, 3304, 3489, 3683, 3885, 4094, 4313, 4540,
     4777, 5022, 5278, 5542, 5817, 6103, 6399, 6705, 7023, 7352, 7693, 8046,
     8411, 8789, 9179, 9583, 10000, 10430, 10875, 11334, 11807, 12296 >>

getProbabilityFromNoise(noiseValue) == ContrastTable[(noiseValue \div 100) + 1]

\* Math.sin and Math.cos of p / 10 radians, p = 0 .. 255
SinTable ==
  << 0, 998, 1987, 2955, 3894, 4794, 5646, 6442, 7174, 7833, 8415, 8912,
     9320, 9636, 9854, 9975, 9996, 9917, 9738, 9463, 9093, 8632, 8085, 7457,
     6755, 5985, 5155, 4274, 3350, 2392, 1411, 416, -584, -1577, -2555, -3508,
     -4425, -5298, -6119, -6878, -7568, -8183, -8716, -9162, -9516, -9775, -9937, -9999,
     -9962, -9825, -9589, -9258, -8835, -8323, -7728, -7055, -6313, -5507, -4646, -3739,
     -2794, -1822, -831, 168, 1165, 2151, 3115, 4048, 4941, 5784, 6570, 7290,
     7937, 8504, 8987, 9380, 9679, 9882, 9985, 9989, 9894, 9699, 9407, 9022,
     8546, 7985, 7344, 6630, 5849, 5010, 4121, 3191, 2229, 1245, 248, -752,
     -1743, -2718, -3665, -4575, -5440, -6251, -6999, -7677, -8278, -8797, -9228, -9566,
     -9809, -9954, -10000, -9946, -9792, -9540, -9193, -8755, -8228, -7620, -6935, -6181,
     -5366, -4496, -3582, -2632, -1656, -663, 336, 1332, 2315, 3275, 4202, 5087,
     5921, 6696, 7404, 8038, 8592, 9060, 9437, 9720, 9906, 9993, 9980, 9868,
     9657, 9349, 8948, 8457, 7883, 7229, 6503, 5712, 4864, 3967, 3031, 2065,
     1078, 80, -919, -1909, -2879, -3821, -4724, -5581, -6381, -7118, -7784, -8371,
     -8876, -9291, -9614, -9841, -9969, -9998, -9927, -9756, -9488, -9126, -8672, -8132,
     -7510, -6813, -6048, -5223, -4346, -3425, -2470, -1490, -495, 504, 1499, 2478,
     3433, 4354, 5231, 6055, 6820, 7516, 8137, 8676, 9129, 9491, 9758, 9928,
     9998, 9968, 9839, 9612, 9288, 8872, 8367, 7778, 7112, 6374, 5573, 4716,
     3813, 2871, 1900, 910, -89, -1086, -2073, -3040, -3976, -4872, -5719, -6510,
     -7235, -7888, -8462, -8952, -9352, -9659, -9869, -9981, -9993, -9905, -9718, -9434,
     -9056, -8587, -8033, -7398, -6689, -5914, -5079, -4194, -3266, -2306, -1324, -327,
     672, 1665, 2641, 3591 >>

CosTable ==
  << 10000, 9950, 9801, 9553, 9211, 8776, 8253, 7648, 6967, 6216, 5403, 4536,
     3624, 2675, 1700, 707, -292, -1288, -2272, -3233, -4161, -5048, -5885, -6663,
     -7374, -8011, -8569, -9041, -9422, -9710, -9900, -9991, -9983, -9875, -9668, -9365,
     -8968, -8481, -7910, -7259, -6536, -5748, -4903, -4008, -3073, -2108, -1122, -124,
     875, 1865, 2837, 3780, 4685, 5544, 6347, 7087, 7756, 8347, 8855, 9275,
     9602, 9833, 9965, 9999, 9932, 9766, 9502, 9144, 8694, 8157, 7539, 6845,
     6084, 5261, 4385, 3466, 2513, 1534, 540, -460, -1455, -2435, -3392, -4314,
     -5193, -6020, -6787, -7486, -8111, -8654, -9111, -9477, -9748, -9922, -9997, -9972,
     -9847, -9624, -9304, -8892, -8391, -7806, -7143, -6408, -5610, -4755, -3853, -2913,
     -1943, -954, 44, 1042, 2030, 2997, 3935, 4833, 5683, 6476, 7204, 7861,
     8439, 8932, 9336, 9647, 9862, 9978, 9994, 9911, 9728, 9449, 9074, 8610,
     8059, 7427, 6722, 5949, 5117, 4234, 3308, 2349, 1367, 372, -628, -1621,
     -2598, -3549, -4465, -5336, -6154, -6910, -7597, -8208, -8737, -9179, -9530, -9785,
     -9942, -10000, -9958, -9816, -9577, -9241, -8814, -8298, -7699, -7024, -6278, -5470,
     -4607, -3698, -2752, -1778, -787, 212, 1209, 2194, 3157, 4089, 4980, 5820,
     6603, 7320, 7964, 8528, 9006, 9395, 9690, 9888, 9988, 9987, 9887, 9688,
     9392, 9003, 8523, 7958, 7314, 6596, 5813, 4972, 4081, 3149, 2186, 1201,
     204, -796, -1787, -2760, -3706, -4615, -5477, -6285, -7030, -7705, -8303, -8818,
     -9245, -9579, -9818, -9958, -10000, -9941, -9783, -9527, -9176, -8733, -8203, -7591,
     -6903, -6147, -5328, -4457, -3541, -2590, -1612, -619, 380, 1376, 2358, 3317,
     4242, 5125, 5956, 6729, 7433, 8064, 8614, 9078, 9452, 9730, 9912, 9995,
     9977, 9860, 9645, 9333 >>

\* Math.sin(p / 10), Math.cos(p / 10)
Sin(p) == SinTable[p + 1]
Cos(p) == CosTable[p + 1]

(***************************************************************************)
(* createStars                                                             *)
(***************************************************************************)

\* getMinDistanceAtPoint(x, y): the distance and the generator state left
getMinDistanceAtPoint(sd, s, x, y) ==
  LET structureNoise == ScaledNoise(sd, x, y, largeStructureScale)
      r == seededRandom(s)
  IN  [v |-> baseMinDistance - (structureNoise * minDistanceVariation) \div U
               + (r.v * 300) \div U,
       s |-> r.s]

\* Math.sqrt(dx * dx + dy * dy) < minDist, for minDist > 0
TooClose(star, x, y, minDist) ==
  LET dx == x - star.x
      dy == y - star.y
  IN  dx * dx + dy * dy < minDist * minDist

\* a faulty variant of isPositionValid: returns true at the first star that is far enough
isPositionValidFirstOnly(placed, x, y, minDist) ==
  Len(placed) = 0 \/ ~TooClose(placed[1], x, y, minDist)

isPositionValid(placed, x, y, minDist) ==
  \A k \in 1..Len(placed) : ~TooClose(placed[k], x, y, minDist)

\* typeIndex and brightness of an accepted star (lines 464-486); the draws
\* are made in the code's order, the right operand of && only when the left
\* one holds
ClassifyStar(s, blendedNoise) ==
  LET a == IF blendedNoise > 8500 THEN seededRandom(s) ELSE [v |-> U, s |-> s]
  IN  IF blendedNoise > 8500 /\ a.v < 3000
      THEN LET t == seededRandom(a.s)
               b == seededRandom(t.s)
           IN  [typeIndex |-> IF t.v < 6000 THEN 2 ELSE 1,
                brightness |-> 7000 + (b.v * 3) \div 10,
                s |-> b.s]
      ELSE LET c == IF blendedNoise > 7000 THEN seededRandom(a.s)
                    ELSE [v |-> U, s |-> a.s]
           IN  IF blendedNoise > 7000 /\ c.v < 2000
               THEN LET t == seededRandom(c.s)
                        b == seededRandom(t.s)
                    IN  [typeIndex |-> IF t.v < 3000 THEN 1 ELSE 0,
                         brightness |-> 5000 + (b.v * 4) \div 10,
                         s |-> b.s]
               ELSE LET e == seededRandom(c.s)
                    IN  IF e.v < 300
                        THEN LET t == seededRandom(e.s)
                                 b == seededRandom(t.s)
                             IN  [typeIndex |-> IF t.v < 5000 THEN 2 ELSE 1,
                                  brightness |-> 8000 + (b.v * 2) \div 10,
                                  s |-> b.s]
                        ELSE LET b == seededRandom(e.s)
                             IN  [typeIndex |-> 0,
                                  brightness |-> 2000 + (b.v * 4) \div 10,
                                  s |-> b.s]

\* one iteration of the while loop of createStars (lines 432-497);
\* g = [s: generator state, placed: stars so far, attempts: totalSampleAttempts]
SampleAttempt(sd, g, W, H) ==
  LET rx == seededRandom(g.s)
      ry == seededRandom(rx.s)
      x == (rx.v * W * PX) \div U
      y == (ry.v * H * PX) \div U
      largeScaleNoise == ScaledNoise(sd, x, y, largeStructureScale)
      mediumScaleNoise == ScaledNoise(sd, x, y, mediumStructureScale)
      rb == seededRandom(ry.s)
      blendedNoise == (largeScaleNoise * 75 + mediumScaleNoise * 25 + rb.v * 5) \div 100
      probability == getProbabilityFromNoise(blendedNoise)
      re == seededRandom(rb.s)
      effectiveProbability == (probability * 9 + re.v * 2) \div 10
      rc == seededRandom(re.s)
  IN  IF ~(rc.v < effectiveProbability)
      THEN [s |-> rc.s, placed |-> g.placed, attempts |-> g.attempts + 1]
      ELSE LET md == getMinDistanceAtPoint(sd, rc.s, x, y)
               jx == seededRandom(md.s)
               jy == seededRandom(jx.s)
               jitterX == x + ((jx.v * 2 - U) * jitterAmount) \div U
               jitterY == y + ((jy.v * 2 - U) * jitterAmount) \div U
           IN  IF ~isPositionValid(g.placed, jitterX, jitterY, md.v)
               THEN [s |-> jy.s, placed |-> g.placed, attempts |-> g.attempts + 1]
               ELSE LET c == ClassifyStar(jy.s, blendedNoise)
                        bs == seededRandom(c.s)
                        bd == seededRandom(bs.s)
                    IN  [s |-> bd.s,
                         placed |-> Append(g.placed,
                            [x |-> jitterX, y |-> jitterY,
                             type |-> c.typeIndex,
                             brightness |-> c.brightness,
                             blinkSpeed |-> 100 + bs.v \div 1000,
                             blinkDirection |-> IF bd.v > 5000 THEN 1 ELSE -1,
                             \* history fields, never read by the program:
                             minDist |-> md.v,
                             created |-> c.brightness]),
                         attempts |-> g.attempts + 1]

RECURSIVE GenerationLoop(_, _, _, _)
GenerationLoop(sd, g, W, H) ==
  IF g.attempts * 100 < W * H /\ Len(g.placed) < (W * H) \div 100
  THEN GenerationLoop(sd, SampleAttempt(sd, g, W, H), W, H)
  ELSE g

\* createStars(): stars.length = 0, then the sampling loop; returns the new
\* star list and the generator state left behind
createStars(sd, s, W, H) ==
  LET g == GenerationLoop(sd, [s |-> s, placed |-> <<>>, attempts |-> 0], W, H)
  IN  [stars |-> g.placed, s |-> g.s]

\* what a generation fixes of a star: position, kind, initial brightness
Layout(ss) == [k \in 1..Len(ss) |-> <<ss[k].x, ss[k].y, ss[k].type, ss[k].created>>]

(***************************************************************************)
(* updateStars                                                             *)
(***************************************************************************)

\* the body of the for loop of updateStars for stars[i] (i counted from 0);
\* now is Date.now() in milliseconds, now * 0.001 radians = (now / 100) / 10
TwinkleStar(star, i, now) ==
  LET p == now \div 100
      b == star.brightness + star.blinkDirection * star.blinkSpeed
  IN  IF b <= 2000 \/ b >= 9000
      THEN LET flickerValue == (Sin(p + i) + U) \div 2
           IN  IF flickerValue < 1000
               THEN [star EXCEPT !.blinkDirection = -star.blinkDirection,
                                 !.brightness = 3000 + ((Sin(p + 10 * i) + U) * 3) \div 10,
                                 !.blinkSpeed = 100 + (Cos(p + 10 * i) + U) \div 100]
               ELSE [star EXCEPT !.blinkDirection = -star.blinkDirection,
                                 !.brightness = b]
      ELSE [star EXCEPT !.brightness = b]

updateStars(ss, now) == [k \in 1..Len(ss) |-> TwinkleStar(ss[k], k - 1, now)]

(***************************************************************************)
(* Shooting stars                                                          *)
(***************************************************************************)
maxShimmerPixels == 200

\* the element of a one-element set; Only({e(v) : v \in {d}}) is
\* LET v == d IN e(v) with d computed once
Only(S) == CHOOSE e \in S : TRUE

\* Math.sqrt, rounded down (speeds stay below 20 px per frame)
Sqrt(n) ==
  Only({CHOOSE r \in (h * 64)..(h * 64 + 63) : r * r <= n /\ n < (r + 1) * (r + 1) :
          h \in {CHOOSE q \in 0..31 : (q * 64) * (q * 64) <= n /\ n < (q * 64 + 64) * (q * 64 + 64)}})

\* the object pushed by createShootingStar() and the generator state left;
\* id is a history field (the number of the creation)
createShootingStar(s, W, H, id) ==
  LET rx == seededRandom(s)
      ry == seededRandom(rx.s)
      rs == seededRandom(ry.s)
      speed == 500 + (rs.v * 800) \div U
      ra == seededRandom(rs.s)
      rt == seededRandom(ra.s)
  IN  [star |-> [x |-> (rx.v * W * PX) \div U,
                 y |-> (ry.v * ((H * PX * 3) \div 10)) \div U,
                 vx |-> (7071 * speed) \div U,
                 vy |-> (7071 * speed) \div U,
                 maxAlpha |-> 8000 + (ra.v * 2) \div 10,
                 tailLength |-> 3000 + (rt.v * 3000) \div U,
                 distanceTraveled |-> 0,
                 maxTravel |-> (Max(W, H) * PX * 15) \div 10,
                 shimmerPixels |-> <<>>,
                 id |-> id],
       s |-> rt.s]

\* Array.prototype.splice(i, 1), for the 1-based index i
Splice(arr, i) == SubSeq(arr, 1, i - 1) \o SubSeq(arr, i + 1, Len(arr))

\* pixel.alpha *= pixel.decay * 0.97 || 0.97
DecayPixel(pixel) ==
  LET factor == IF pixel.decay * 97 = 0 THEN 97000 ELSE (pixel.decay * 97) \div 10
  IN  [pixel EXCEPT !.alpha = (pixel.alpha * factor) \div 100000]

Visible(pixel) == ~(pixel.alpha < 300)

\* the inner loop of updateShootingStars (lines 147-158): j runs from the
\* last pixel to the first, so a splice at j moves no pixel still to be
\* visited; every pixel is decayed once and the faint ones are dropped
ShimmerLoop(pixels) ==
  SelectSeq([j \in 1..Len(pixels) |-> DecayPixel(pixels[j])], Visible)

\* a faulty variant of MoveShootingStar: the position and the distance are not advanced
MoveShootingStarStill(star) ==
  [star EXCEPT !.shimmerPixels = ShimmerLoop(star.shimmerPixels)]

\* lines 137-159: motion, distance and shimmer decay of one shooting star
MoveShootingStar(star) ==
  [star EXCEPT !.x = star.x + star.vx,
               !.y = star.y + star.vy,
               !.distanceTraveled = star.distanceTraveled
                                      + Sqrt(star.vx * star.vx + star.vy * star.vy),
               !.shimmerPixels = ShimmerLoop(star.shimmerPixels)]

\* the removal test of lines 162-167
ShouldRemove(star, W, H) ==
  /\ \/ star.x < 0
     \/ star.x > W * PX
     \/ star.y < 0
     \/ star.y > H * PX
     \/ star.distanceTraveled > star.maxTravel
  /\ ~(Len(star.shimmerPixels) > 0)

\* a faulty variant of updateShootingStars: the loop runs from the first star to the
\* last, so the star after a removed one is skipped
RECURSIVE ForwardLoop(_, _, _, _)
ForwardLoop(arr, i, W, H) ==
  IF i > Len(arr) THEN arr
  ELSE Only({ForwardLoop(next, i + 1, W, H) :
               next \in {Only({IF ShouldRemove(star, W, H)
                                 THEN Splice(arr, i)
                                 ELSE [arr EXCEPT ![i] = star] :
                                   star \in {MoveShootingStar(arr[i])}})}})

updateShootingStarsForward(arr, W, H) == ForwardLoop(arr, 1, W, H)

\* the outer loop of updateShootingStars (line 134), i counted from 1
RECURSIVE ShootingLoop(_, _, _, _)
ShootingLoop(arr, i, W, H) ==
  IF i < 1 THEN arr
  ELSE Only({ShootingLoop(next, i - 1, W, H) :
               next \in {Only({IF ShouldRemove(star, W, H)
                                 THEN Splice(arr, i)
                                 ELSE [arr EXCEPT ![i] = star] :
                                   star \in {MoveShootingStar(arr[i])}})}})

updateShootingStars(arr, W, H) == ShootingLoop(arr, Len(arr), W, H)

(***************************************************************************)
(* Rendering                                                               *)
(***************************************************************************)
Skip == 0 - 1

\* a sequence given by a rule, with its elements computed once
Eager(s) == s \o <<>>

\* the inline horizon fade of lines 184-190, 240-246, 292-298 and 352-358
\* for an element at height y (1/PX pixel), from the constants fs =
\* fadeStartY, fe = fadeEndY, fr = fadeRange; Skip stands for `continue`
InlineFade(y, fs, fe, fr) ==
  IF y >= fs
  THEN IF y > fe THEN Skip ELSE U - ((y - fs) * U) \div fr
  ELSE U

\* lines 196-208; progress = distanceTraveled / maxTravel.  With maxTravel
\* = 0 the quotient is NaN (0 / 0: both comparisons fail, factor 1.0) or
\* Infinity (factor -Infinity, modelled by -1.0: only its sign is used)
LifecycleFactor(star) ==
  IF star.maxTravel = 0
  THEN IF star.distanceTraveled = 0 THEN U ELSE -U
  ELSE LET progress == ((star.distanceTraveled * 1000) \div star.maxTravel) * 10
       IN  IF progress < 1500 THEN (progress * U) \div 1500
           ELSE IF progress > 7000 THEN U - ((progress - 7000) * 10) \div 3
           ELSE U

\* (x * 0.1 + y * 0.2) % 1.0 for integers x, y, in tenths; the remainder
\* takes the sign of the dividend
ShimmerSeed(x, y) ==
  LET t == x + 2 * y
  IN  IF t >= 0 THEN t % 10 ELSE -((-t) % 10)

\* one iteration of the tail loop of lines 231-281, for the index i; c holds
\* the values computed before the loop.  drawn: fillRect(x, y, 1, 1) is
\* called; shimmer: a shimmer pixel is pushed
TailPixel(i, c) ==
  LET x == (c.startX * U - c.dx * i) \div U
      y == (c.startY * U - c.dy * i) \div U
      tailFadeFactor == InlineFade(y * PX, c.fs, c.fe, c.fr)
      tailFade == U - (i * U) \div c.tailLength
      pixelAlpha == (((c.currentAlpha * tailFade) \div U) * tailFadeFactor) \div U
      tailEndSection == i * 10 > c.tailLength * 6
      shimmerSeed == ShimmerSeed(x, y)
      drawn == /\ ~(c.tailLength > 20 /\ i % 2 # 0 /\ i * 10 < c.tailLength * 7)
               /\ tailFadeFactor # Skip
               /\ pixelAlpha > 500
  IN  [drawn |-> drawn,
       shimmer |-> /\ drawn
                   /\ c.shouldAddShimmer
                   /\ shimmerSeed * 1000 < (IF tailEndSection THEN 2000 ELSE 400),
       y |-> y * PX,
       fade |-> tailFadeFactor,
       pixel |-> [x |-> x, y |-> y,
                  alpha |-> (pixelAlpha * (IF tailEndSection THEN 12 ELSE 9)) \div 10,
                  decay |-> IF shimmerSeed * 1000 < 5000 THEN 9850 ELSE 9700]]

\* a faulty variant of TailLoop: the pushed pixels replace the star's shimmerPixels
TailLoopReplacing(pixels, c) ==
  Only({Only({[pixels |-> [k \in 1..Len(pushed) |-> pushed[k].pixel],
               fills |-> Len(drawn),
               pushed |-> Len(pushed),
               faded |-> {<<drawn[k].y, drawn[k].fade>> : k \in 1..Len(drawn)}] :
                pushed \in {SelectSeq(drawn, LAMBDA e : e.shimmer)}}) :
          drawn \in {SelectSeq(Eager([k \in 1..c.tailLength |-> TailPixel(k - 1, c)]),
                               LAMBDA e : e.drawn)}})

\* the tail loop of lines 231-281, i = 0 .. tailLength - 1 in order: the
\* star's shimmerPixels after the pushes, the fillRect calls, the number of
\* pushes, and the <<y, fade>> applied to drawn pixels
TailLoop(pixels, c) ==
  Only({Only({[pixels |-> pixels \o [k \in 1..Len(pushed) |-> pushed[k].pixel],
               fills |-> Len(drawn),
               pushed |-> Len(pushed),
               faded |-> {<<drawn[k].y, drawn[k].fade>> : k \in 1..Len(drawn)}] :
                pushed \in {SelectSeq(drawn, LAMBDA e : e.shimmer)}}) :
          drawn \in {SelectSeq(Eager([k \in 1..c.tailLength |-> TailPixel(k - 1, c)]),
                               LAMBDA e : e.drawn)}})

\* lines 284-320: the shimmer pixels that get a fillRect
VisibleShimmer(pixels, fs, fe, fr) ==
  {k \in 1..Len(pixels) :
     LET f == InlineFade(pixels[k].y * PX, fs, fe, fr)
     IN  f # Skip /\ (pixels[k].alpha * f) \div U > 200}

\* lines 283-330 for a star whose tail loop gave tail: the shimmer draw
\* and the head
ShimmerAndHead(star, tail, headFadeFactor, currentAlpha, fs, fe, fr) ==
  Only({[star |-> [star EXCEPT !.shimmerPixels = tail.pixels],
         fills |-> tail.fills + Cardinality(shown)
                     + (IF (currentAlpha * headFadeFactor) \div U > 500 THEN 2 ELSE 0),
         pushed |-> tail.pushed,
         faded |-> tail.faded
                     \cup {<<tail.pixels[k].y * PX,
                             InlineFade(tail.pixels[k].y * PX, fs, fe, fr)>> : k \in shown}
                     \cup (IF (currentAlpha * headFadeFactor) \div U > 500
                           THEN {<<star.y, headFadeFactor>>} ELSE {})] :
          shown \in {VisibleShimmer(tail.pixels, fs, fe, fr)}})

\* the body of the loop of drawShootingStars for one star: the star as the
\* pass leaves it, the fillRect calls, the pushes and the fades applied
DrawShootingStar(star, fs, fe, fr) ==
  LET headFadeFactor == InlineFade(star.y, fs, fe, fr)
      nothing == [star |-> star, fills |-> 0, pushed |-> 0, faded |-> {}]
  IN  IF headFadeFactor = Skip THEN nothing
      ELSE IF headFadeFactor <= 100 THEN nothing
      ELSE
        Only({ShimmerAndHead(star, tail, headFadeFactor,
                             (star.maxAlpha * LifecycleFactor(star)) \div U, fs, fe, fr) :
          tail \in {Only({TailLoop(star.shimmerPixels,
                      [tailLength |-> star.tailLength \div PX,
                       startX |-> star.x \div PX,
                       startY |-> star.y \div PX,
                       dx |-> (star.vx * U) \div length,
                       dy |-> (star.vy * U) \div length,
                       currentAlpha |-> (star.maxAlpha * LifecycleFactor(star)) \div U,
                       shouldAddShimmer |-> Len(star.shimmerPixels) < maxShimmerPixels,
                       fs |-> fs, fe |-> fe, fr |-> fr]) :
                    length \in {Sqrt(star.vx * star.vx + star.vy * star.vy)}})}})

RECURSIVE SumFills(_, _)
SumFills(f, k) == IF k = 0 THEN 0 ELSE f[k].fills + SumFills(f, k - 1)

RECURSIVE SumPushed(_, _)
SumPushed(f, k) == IF k = 0 THEN 0 ELSE f[k].pushed + SumPushed(f, k - 1)

\* drawShootingStars(): the collection as the pass leaves it and its calls
drawShootingStars(arr, fs, fe, fr) ==
  Only({[shootingStars |-> [k \in 1..Len(arr) |-> d[k].star],
         fills |-> SumFills(d, Len(arr)),
         pushed |-> SumPushed(d, Len(arr)),
         faded |-> UNION {d[k].faded : k \in 1..Len(arr)}] :
          d \in {Eager([k \in 1..Len(arr) |-> DrawShootingStar(arr[k], fs, fe, fr)])}})

\* the fillRect calls of star.type.draw (lines 55-83)
TypeFills(typeIndex) == IF typeIndex = 2 THEN 2 ELSE 1

\* lines 348-367 for one static star: 0 when it is not drawn
StarAlpha(star, fs, fe, fr) ==
  LET fadeFactor == InlineFade(star.y, fs, fe, fr)
  IN  IF fadeFactor = Skip THEN 0
      ELSE ((4000 + (star.brightness * 6) \div 10) * fadeFactor) \div U

RECURSIVE SumStarFills(_, _, _, _, _)
SumStarFills(ss, k, fs, fe, fr) ==
  IF k = 0 THEN 0
  ELSE (IF StarAlpha(ss[k], fs, fe, fr) > 100 THEN TypeFills(ss[k].type) ELSE 0)
         + SumStarFills(ss, k - 1, fs, fe, fr)

NoDraw == [clears |-> 0, fills |-> 0, pushed |-> 0, faded |-> {}]

\* drawStars(): clearRect, the static stars, then drawShootingStars
drawStars(ss, arr, fs, fe, fr) ==
  Only({[shootingStars |-> sh.shootingStars,
         out |-> [clears |-> 1,
                  fills |-> SumStarFills(ss, Len(ss), fs, fe, fr) + sh.fills,
                  pushed |-> sh.pushed,
                  faded |-> {<<ss[k].y, InlineFade(ss[k].y, fs, fe, fr)>> :
                                k \in {n \in 1..Len(ss) : StarAlpha(ss[n], fs, fe, fr) > 100}}
                              \cup sh.faded]] :
          sh \in {drawShootingStars(arr, fs, fe, fr)}})

(***************************************************************************)
(* The handlers                                                            *)
(***************************************************************************)

\* setupStarField(canvas) up to its return: the first resizeCanvas() and
\* the first, synchronous, animate() on a visible page
Setup(seeds, sizes) ==
  \E sd \in seeds, size \in sizes, now \in NowSet :
    LET W == size[1]
        H == size[2]
        fs == (H * PX) \div 10
        fe == (H * PX * 99) \div 100
    IN  \E g \in {createStars(sd, sd, W, H)} :
        \E ss \in {updateStars(g.stars, now)} :
        \E d \in {drawStars(ss, <<>>, fs, fe, fe - fs)} :
        /\ seed = sd
        /\ prng = g.s
        /\ stars = ss
        /\ shootingStars = <<>>
        /\ innerWidth = W
        /\ innerHeight = H
        /\ canvasDisplayHeight = H
        /\ fadeStartY = fs
        /\ fadeEndY = fe
        /\ fadeRange = fe - fs
        /\ isVisible = TRUE
        /\ visibilityState = "visible"
        /\ rafPending = TRUE
        /\ ticks = 0
        /\ spawned = 0
        /\ events = 0
        /\ gen0 = [w |-> W, h |-> H, layout |-> Layout(g.stars)]
        /\ updatedSS = <<>>
        /\ out = d.out

Init == Setup(Seeds, InitSizes)

\* a faulty variant of AnimateBody: the updates and the render run whatever the
\* visibility
AnimateBodyAlways(now) ==
  /\ rafPending
  /\ \E ss \in {updateStars(stars, now)} :
     \E u \in {updateShootingStars(shootingStars, innerWidth, innerHeight)} :
     \E d \in {drawStars(ss, u, fadeStartY, fadeEndY, fadeRange)} :
         /\ isVisible' = (visibilityState = "visible")
         /\ stars' = ss
         /\ updatedSS' = u
         /\ shootingStars' = d.shootingStars
         /\ out' = d.out
  /\ rafPending' = TRUE
  /\ UNCHANGED <<seed, prng, innerWidth, innerHeight, canvasDisplayHeight,
                 fadeStartY, fadeEndY, fadeRange, visibilityState,
                 spawned, events, gen0>>

\* the body of animate() (lines 566-589) for Date.now() = now
AnimateBody(now) ==
  /\ rafPending
  /\ IF visibilityState = "visible"
     THEN \E ss \in {updateStars(stars, now)} :
          \E u \in {updateShootingStars(shootingStars, innerWidth, innerHeight)} :
          \E d \in {drawStars(ss, u, fadeStartY, fadeEndY, fadeRange)} :
              /\ isVisible' = TRUE
              /\ stars' = ss
              /\ updatedSS' = u
              /\ shootingStars' = d.shootingStars
              /\ out' = d.out
     ELSE /\ isVisible' = FALSE
          /\ out' = NoDraw
          /\ UNCHANGED <<stars, shootingStars, updatedSS>>
  /\ rafPending' = TRUE
  /\ UNCHANGED <<seed, prng, innerWidth, innerHeight, canvasDisplayHeight,
                 fadeStartY, fadeEndY, fadeRange, visibilityState,
                 spawned, events, gen0>>

\* a frame: the callback registered with requestAnimationFrame runs
animate ==
  /\ ticks < MaxTicks
  /\ ticks' = ticks + 1
  /\ \E now \in NowSet : AnimateBody(now)

\* the setInterval callback of startShootingStarTimer (lines 603-605)
TimerBody ==
  /\ \E c \in {createShootingStar(prng, innerWidth, innerHeight, spawned + 1)} :
         /\ shootingStars' = Append(shootingStars, c.star)
         /\ prng' = c.s
  /\ spawned' = spawned + 1
  /\ out' = NoDraw
  /\ UNCHANGED <<seed, stars, innerWidth, innerHeight, canvasDisplayHeight,
                 fadeStartY, fadeEndY, fadeRange, isVisible, visibilityState,
                 rafPending, ticks, gen0, updatedSS>>

ShootingStarTimer ==
  /\ events < MaxEvents
  /\ events' = events + 1
  /\ TimerBody

\* the window takes the size <<W, H>> and resizeCanvas runs (lines 534-560)
resizeCanvas(W, H) ==
  /\ events < MaxEvents
  /\ events' = events + 1
  /\ innerWidth' = W
  /\ innerHeight' = H
  /\ canvasDisplayHeight' = H
  /\ \E g \in {createStars(seed, prng, W, H)} :
     \E d \in {drawStars(g.stars, shootingStars, fadeStartY, fadeEndY, fadeRange)} :
         /\ stars' = g.stars
         /\ prng' = g.s
         /\ shootingStars' = d.shootingStars
         /\ out' = d.out
  /\ UNCHANGED <<seed, fadeStartY, fadeEndY, fadeRange, isVisible,
                 visibilityState, rafPending, ticks, spawned, gen0,
                 updatedSS>>

\* the visibilitychange listener (lines 592-597), page becoming hidden
HiddenBody ==
  /\ visibilityState = "visible"
  /\ visibilityState' = "hidden"
  /\ out' = NoDraw
  /\ UNCHANGED <<seed, prng, stars, shootingStars, innerWidth, innerHeight,
                 canvasDisplayHeight, fadeStartY, fadeEndY, fadeRange,
                 isVisible, rafPending, ticks, spawned, gen0,
                 updatedSS>>

VisibilityHidden ==
  /\ events < MaxEvents
  /\ events' = events + 1
  /\ HiddenBody

\* drawStars() called outside a frame, for the current state
RedrawBody ==
  /\ \E d \in {drawStars(stars, shootingStars, fadeStartY, fadeEndY, fadeRange)} :
         /\ shootingStars' = d.shootingStars
         /\ out' = d.out
  /\ UNCHANGED <<seed, prng, stars, innerWidth, innerHeight,
                 canvasDisplayHeight, fadeStartY, fadeEndY, fadeRange,
                 isVisible, rafPending, ticks, spawned, gen0, updatedSS>>

\* the visibilitychange listener, page becoming visible: drawStars()
VisibilityVisible ==
  /\ visibilityState = "hidden"
  /\ visibilityState' = "visible"
  /\ UNCHANGED events
  /\ RedrawBody

\* the redraw entry of the returned object (line 616): the embedding page
\* calls drawStars()
redraw ==
  /\ events < MaxEvents
  /\ events' = events + 1
  /\ UNCHANGED visibilityState
  /\ RedrawBody

Next ==
  \/ animate
  \/ ShootingStarTimer
  \/ \E size \in Sizes : resizeCanvas(size[1], size[2])
  \/ VisibilityHidden
  \/ VisibilityVisible
  \/ redraw

Spec == Init /\ [][Next]_vars


(***************************************************************************)
(* The fair specification: a fixed, non-degenerate viewport (no resize),   *)
(* frames without end.  requestAnimationFrame(animate) is re-issued by     *)
(* every frame (line 588), so frames keep coming; the page does not stay   *)
(* hidden for ever, and frames keep running while it is visible.           *)
(***************************************************************************)
LiveInit == Setup(LiveSeeds, LiveSizes)

LiveAnimate ==
  /\ ticks' = ticks
  /\ \E now \in NowSet : AnimateBody(now)

LiveVisibleFrame == visibilityState = "visible" /\ LiveAnimate

LiveShootingStarTimer ==
  /\ events < MaxLiveEvents
  /\ events' = events + 1
  /\ TimerBody

LiveVisibilityHidden ==
  /\ events < MaxLiveEvents
  /\ events' = events + 1
  /\ HiddenBody

LiveRedraw ==
  /\ events < MaxLiveEvents
  /\ events' = events + 1
  /\ UNCHANGED visibilityState
  /\ RedrawBody

LiveNext ==
  \/ LiveAnimate
  \/ LiveShootingStarTimer
  \/ LiveVisibilityHidden
  \/ VisibilityVisible
  \/ LiveRedraw

LiveSpec ==
  /\ LiveInit
  /\ [][LiveNext]_vars
  /\ WF_vars(VisibilityVisible)
  /\ SF_vars(LiveVisibleFrame)

(***************************************************************************)
(* Repeated renders: a fixed viewport, the timer, frames, and drawStars()  *)
(* called through the redraw entry as often as the page likes.  Every      *)
(* behaviour of this specification is a behaviour of the program.          *)
(***************************************************************************)
ShimmerInit == Setup(Seeds, LiveSizes)

ShimmerTimer ==
  /\ spawned < MaxShimmerSpawns
  /\ UNCHANGED events
  /\ TimerBody

ShimmerRedraw ==
  /\ events < MaxRedraws
  /\ events' = events + 1
  /\ UNCHANGED visibilityState
  /\ RedrawBody

ShimmerNext ==
  \/ animate
  \/ ShimmerTimer
  \/ ShimmerRedraw

ShimmerSpec == ShimmerInit /\ [][ShimmerNext]_vars

(***************************************************************************)
(* The timer on a page that can be hidden: a fixed viewport, the timer     *)
(* callback (setInterval keeps firing whatever the visibility), frames and *)
(* visibility changes, in any interleaving.                                *)
(***************************************************************************)
TimerInit == Setup(Seeds, LiveSizes)

TimerSpawn ==
  /\ spawned < MaxTimerSpawns
  /\ UNCHANGED events
  /\ TimerBody

TimerNext ==
  \/ animate
  \/ TimerSpawn
  \/ VisibilityHidden
  \/ VisibilityVisible

TimerSpec == TimerInit /\ [][TimerNext]_vars

(***************************************************************************)
(* Properties                                                              *)
(***************************************************************************)

\* a step of animate on a visible page
VisibleTick == ticks' = ticks + 1 /\ visibilityState = "visible"

\* a step of animate on a hidden page
HiddenTick == ticks' = ticks + 1 /\ visibilityState = "hidden"

\* a step in which the handler ran a render pass
RenderStep == out'.clears = 1

\* the shooting stars the render pass of a step started from
BeforeRender == IF ticks' = ticks + 1 THEN updatedSS' ELSE shootingStars

\* C1: every star's brightness lies within [0.2, 0.9], from its creation on
\* and after any number of updateStars steps.
C1_BrightnessInRange ==
  \A k \in 1..Len(stars) : stars[k].brightness >= 2000 /\ stars[k].brightness <= 9000

\* C2: whenever the viewport has the size of the first generation, the star
\* set (positions, kinds, initial brightness) is the one the first
\* generation produced from the same seed, whatever ran in between.
C2_SameSeedSameSizeSameStars ==
  (innerWidth = gen0.w /\ innerHeight = gen0.h) => Layout(stars) = gen0.layout

\* outside the viewport or past the travel budget
Finished(star) ==
  \/ star.x < 0 \/ star.x > innerWidth * PX
  \/ star.y < 0 \/ star.y > innerHeight * PX
  \/ star.distanceTraveled > star.maxTravel

\* C3: an update step moves and decays every shooting star exactly once and
\* removes exactly those that are then (outside the viewport or past their
\* travel budget) and own no shimmer pixel; the others stay, in order.
C3_EvictionRule ==
  [][VisibleTick =>
       updatedSS' = SelectSeq([k \in 1..Len(shootingStars) |->
                                  MoveShootingStar(shootingStars[k])],
                              LAMBDA s : ~(Finished(s) /\ Len(s.shimmerPixels) = 0))]_vars

\* C3 witness: a shooting star has been removed, and the last update kept
\* one that was finished but still owned shimmer pixels
C3_Witness ==
  /\ ticks > 0
  /\ Len(shootingStars) = Len(updatedSS)
  /\ Len(shootingStars) < spawned
  /\ \E k \in 1..Len(updatedSS) :
       Finished(updatedSS[k]) /\ Len(updatedSS[k].shimmerPixels) > 0

\* C4 (as stated): a render pass changes neither the star collection nor
\* the shooting-star collection.
C4_RenderReadsOnly ==
  [][RenderStep =>
       /\ shootingStars' = BeforeRender
       /\ (ticks' = ticks /\ innerWidth' = innerWidth /\ prng' = prng => stars' = stars)]_vars

IsPrefix(s, t) == Len(s) <= Len(t) /\ SubSeq(t, 1, Len(s)) = s

\* C4 (amended): a render pass leaves the star collection unchanged, removes
\* and adds no shooting star, changes no field of a shooting star other than
\* shimmerPixels, and only appends to shimmerPixels.
C4_RenderOnlyAppendsShimmer ==
  [][RenderStep =>
       /\ Len(shootingStars') = Len(BeforeRender)
       /\ \A k \in 1..Len(BeforeRender) :
            /\ [shootingStars'[k] EXCEPT !.shimmerPixels = <<>>]
                 = [BeforeRender[k] EXCEPT !.shimmerPixels = <<>>]
            /\ IsPrefix(BeforeRender[k].shimmerPixels, shootingStars'[k].shimmerPixels)
       /\ (ticks' = ticks /\ innerWidth' = innerWidth /\ prng' = prng => stars' = stars)]_vars

\* C4 witness: a render pass over static stars and a shooting star that
\* already owned shimmer pixels has pushed new ones
C4_Witness ==
  /\ out.clears = 1
  /\ out.pushed > 0
  /\ stars # <<>>
  /\ \E k \in 1..Len(shootingStars) : Len(shootingStars[k].shimmerPixels) > out.pushed

\* C5: a tick on a hidden page changes no star and no shooting star, emits
\* no draw call and leaves the next tick scheduled; the page becoming
\* visible renders the current state exactly once, without any update.
C5_HiddenTicksIdle ==
  [][/\ HiddenTick =>
          /\ stars' = stars
          /\ shootingStars' = shootingStars
          /\ out' = NoDraw
          /\ rafPending'
     /\ (visibilityState = "hidden" /\ visibilityState' = "visible") =>
          /\ out'.clears = 1
          /\ stars' = stars
          /\ ticks' = ticks
          /\ Len(shootingStars') = Len(shootingStars)
          /\ \A k \in 1..Len(shootingStars) :
               [shootingStars'[k] EXCEPT !.shimmerPixels = <<>>]
                 = [shootingStars[k] EXCEPT !.shimmerPixels = <<>>]]_vars

\* C5 witness: the page was hidden during a tick and has become visible
\* again, with stars and a shooting star to render
C5_Witness ==
  /\ visibilityState = "visible"
  /\ ~isVisible
  /\ out.clears = 1
  /\ stars # <<>>
  /\ shootingStars # <<>>

\* C6: the fade applied to every drawn element follows the current viewport
\* height H: 1.0 for y in [0, 0.1 H], 0.0 for y >= 0.99 H, non-increasing
\* in y.
C6_FadeFollowsCurrentHeight ==
  /\ \A e \in out.faded :
       /\ (e[1] >= 0 /\ e[1] * 10 <= innerHeight * PX) => e[2] = U
       /\ (e[1] * 100 >= innerHeight * PX * 99) => e[2] = 0
  /\ \A e, f \in out.faded : e[1] <= f[1] => e[2] >= f[2]

\* C7: with a 0 x 0 viewport the star set is empty and a render pass clears
\* the surface and emits no fillRect.
C7_ZeroViewportDrawsNothing ==
  (innerWidth = 0 /\ innerHeight = 0 /\ out.clears > 0) =>
     /\ stars = <<>>
     /\ out.clears = 1
     /\ out.fills = 0

\* C8: every star lies at least its own minimum spacing (the value of
\* getMinDistanceAtPoint at its placement) away from every star placed
\* before it, measured between the stored positions.
C8_Spacing ==
  \A j \in 1..Len(stars) : \A i \in 1..(j - 1) :
    (stars[j].x - stars[i].x) * (stars[j].x - stars[i].x)
      + (stars[j].y - stars[i].y) * (stars[j].y - stars[i].y)
        >= stars[j].minDist * stars[j].minDist

\* C8 witness: a generation run after a resize has placed several stars
C8_Witness == Layout(stars) # gen0.layout /\ Len(stars) >= 3

\* the shimmer pixels an update step leaves according to C9: each alpha
\* multiplied by the pixel's decay, pixels below 0.03 dropped
OwnRateDecay(pixels) ==
  SelectSeq([j \in 1..Len(pixels) |->
               [pixels[j] EXCEPT !.alpha = (pixels[j].alpha * pixels[j].decay) \div U]],
            LAMBDA p : p.alpha >= 300)

\* C9: an update step multiplies every shimmer pixel's alpha by exactly the
\* pixel's own decay constant and drops the pixels that fall below 0.03.
C9_DecayByOwnRate ==
  [][(VisibleTick /\ Len(updatedSS') = Len(shootingStars)) =>
       \A k \in 1..Len(shootingStars) :
         updatedSS'[k].shimmerPixels = OwnRateDecay(shootingStars[k].shimmerPixels)]_vars

\* the shooting star created by the id-th timer callback is in the active set
Active(id) == \E k \in 1..Len(shootingStars) : shootingStars[k].id = id

\* C10: with a fixed non-degenerate viewport and frames that keep running
\* while the page is visible, every shooting star added to the active set is
\* eventually removed from it.
C10_EventuallyRemoved ==
  \A id \in 1..(MaxLiveEvents + 1) : Active(id) ~> ~Active(id)

\* C10 witness: a shooting star has been created, drawn and updated, and has
\* left the active set
C10_Witness ==
  /\ spawned > 0
  /\ shootingStars = <<>>
  /\ updatedSS = <<>>
  /\ out.clears = 1

\* C11: in every reachable state each shooting star owns at most
\* maxShimmerPixels shimmer pixels.
C11_ShimmerLimit ==
  \A k \in 1..Len(shootingStars) :
    Len(shootingStars[k].shimmerPixels) <= maxShimmerPixels

\* C12: the number of active shooting stars stays below a bound that does
\* not depend on how many timer callbacks have fired; in particular, once a
\* frame has found the page hidden (frames then skip updateShootingStars),
\* the active set stays smaller than the number of callbacks that can fire.
C12_ActiveSetBounded ==
  ~isVisible => Len(shootingStars) < MaxTimerSpawns

\* while the page stays hidden no step shrinks the active set and every
\* timer callback adds one shooting star: the growth has no limit but the
\* number of callbacks
HiddenGrowth ==
  [][(visibilityState = "hidden" /\ visibilityState' = "hidden") =>
       /\ Len(shootingStars') >= Len(shootingStars)
       /\ (spawned' = spawned + 1 => Len(shootingStars') = Len(shootingStars) + 1)]_vars

=============================================================================
